---- MODULE Spec2Model ----
(***************************************************************************)
(* The training loop of example_01_transformer_training.ipynb as a state   *)
(* machine: the configuration cell, the scheduler construction, and the    *)
(* loop cell (training step, validation loop, sample decoding, checkpoint).*)
(* The configuration is drawn in Init from small ranges; every other       *)
(* variable is a variable of the notebook or a counter of what it did.     *)
(***************************************************************************)
EXTENDS Integers, Sequences, FiniteSets, TLC

(* ---- ranges of the configuration and of the data ---- *)
MaxSteps == 5
MaxEvalEvery == 3
MaxEvalSteps == 1
MaxWarm == 1
MaxCool == 2
MaxLossWin == 2
MaxTrainLen == 2
MaxValidLen == 3
MaxTok == 1
DataSteps == 2
DataLen == 1

MaxData == 4
MaxRowLen == 3
MaxSeqLen == 2
MaxBatch == 3
MaxText == 2

(* ---- floats: a ratio num/den, or a result that is not a number ---- *)
Num(n, d) == [kind |-> "num", num |-> n, den |-> d]
NaN == [kind |-> "nan", num |-> 0, den |-> 0]
Inf == [kind |-> "inf", num |-> 1, den |-> 0]
Unset == [kind |-> "unset", num |-> 0, den |-> 0]

VARIABLES
  MAX_STEPS, EVAL_EVERY, EVAL_STEPS, WARM_STEPS, COOL_STEPS, LOSS_WIN,
  DEMO_JUST_ONE_ITRE,
  train_dataloader, valid_dataloader, min_tokens, loss_levels,
  pc, global_step, epoch, train_iterator, loss,
  windowed_losses, span_losses, eval_losses, idx,
  scheduler, optimizer, mode, files,
  decoded, fetched, sched_calls, swallowed, error, eval_at, eval_prints, saves,
  events, valid_seen, loss_hist, cycle_print, grads,
  dataset, loader_batch_size, MAX_SEQ_LEN, bpc, batch_no, collated, rows_seen, batch_loss,
  RETRAIN_TOKENIZER, corpus, saved, disk, src_tokenizer, tgt_tokenizer, fits, tpc

config == <<MAX_STEPS, EVAL_EVERY, EVAL_STEPS, WARM_STEPS, COOL_STEPS, LOSS_WIN,
            DEMO_JUST_ONE_ITRE, train_dataloader, valid_dataloader, min_tokens,
            loss_levels>>

vars == <<MAX_STEPS, EVAL_EVERY, EVAL_STEPS, WARM_STEPS, COOL_STEPS, LOSS_WIN,
          DEMO_JUST_ONE_ITRE, train_dataloader, valid_dataloader, min_tokens,
          loss_levels,
          pc, global_step, epoch, train_iterator, loss,
          windowed_losses, span_losses, eval_losses, idx,
          scheduler, optimizer, mode, files,
          decoded, fetched, sched_calls, swallowed, error, eval_at, eval_prints, saves,
          events, valid_seen, loss_hist, cycle_print, grads,
          dataset, loader_batch_size, MAX_SEQ_LEN, bpc, batch_no, collated, rows_seen,
          batch_loss,
          RETRAIN_TOKENIZER, corpus, saved, disk, src_tokenizer, tgt_tokenizer, fits,
          tpc>>

(* the tokenizer cell: the flag, the training corpus, the tokenizer files *)
(* found and those on disk now, the two tokenizers, the tokenizers fit    *)
tokvars == <<RETRAIN_TOKENIZER, corpus, saved, disk, src_tokenizer, tgt_tokenizer,
             fits, tpc>>

(* the dataset and dataloader cells: a dataset, and the batch drawn from it *)
batchvars == <<dataset, loader_batch_size, MAX_SEQ_LEN, bpc, batch_no, collated, rows_seen,
               batch_loss>>

(* the state of the cells before the training loop, fixed while it runs *)
prep == <<batchvars, tokvars>>

(* the variables of the training loop cell *)
loopvars == <<MAX_STEPS, EVAL_EVERY, EVAL_STEPS, WARM_STEPS, COOL_STEPS, LOSS_WIN,
              DEMO_JUST_ONE_ITRE, train_dataloader, valid_dataloader, min_tokens,
              loss_levels,
              pc, global_step, epoch, train_iterator, loss,
              windowed_losses, span_losses, eval_losses, idx,
              scheduler, optimizer, mode, files,
              decoded, fetched, sched_calls, swallowed, error, eval_at, eval_prints,
              saves, events, valid_seen, loss_hist, cycle_print, grads>>

(* what the run has done so far: the stages of the evaluation cycle in    *)
(* hand and the validation losses it computed, the loss of every training *)
(* step, the cycle average last printed, and the gradient buffers         *)
history == <<events, valid_seen, loss_hist, cycle_print, grads>>

(* ---- strings as sequences of characters ---- *)
checkpoint_file ==
  <<"c","h","e","c","k","p","o","i","n","t","_","v","1","6","0","0","0",".","p","t">>

DigitChar(d) == <<"0","1","2","3","4","5","6","7","8","9">>[d + 1]

RECURSIVE Decimal(_)
Decimal(n) == IF n < 10 THEN <<DigitChar(n)>>
              ELSE Decimal(n \div 10) \o <<DigitChar(n % 10)>>

RECURSIVE ZeroFill(_, _)
ZeroFill(s, width) == IF Len(s) >= width THEN s ELSE ZeroFill(<<"0">> \o s, width)

(* variant: the step count is left out of the inserted suffix *)
StepSuffix_NoStep(n) == <<"-">> \o ZeroFill(<<>>, 8) \o <<".","p","t">>

(* "-{:08d}.pt".format(n) *)
StepSuffix(n) == <<"-">> \o ZeroFill(Decimal(n), 8) \o <<".","p","t">>

StartsWith(s, old) == Len(s) >= Len(old) /\ SubSeq(s, 1, Len(old)) = old

(* str.replace: every non-overlapping occurrence, left to right *)
RECURSIVE Replace(_, _, _)
Replace(s, old, new) ==
  IF s = <<>> THEN <<>>
  ELSE IF StartsWith(s, old)
       THEN new \o Replace(SubSeq(s, Len(old) + 1, Len(s)), old, new)
       ELSE <<Head(s)>> \o Replace(Tail(s), old, new)

CheckpointName(step) == Replace(checkpoint_file, <<".","p","t">>, StepSuffix(step))

(* ---- batches the dataloaders can yield: the sum of y_lens and the      ---- *)
(* ---- cross entropy of each valid label position                       ---- *)
Batches == [ntok : min_tokens..MaxTok, tokloss : 1..loss_levels]

(* criterion(y_pred.transpose(1, 2), y_true), reduction="sum", ignore_index=0 *)
Criterion(b) == b.ntok * b.tokloss

(* loss /= torch.sum(y_lens): tensor division, no exception on a zero divisor *)
Normalise(ce, ntok) ==
  IF ntok = 0 THEN (IF ce = 0 THEN NaN ELSE Inf) ELSE Num(ce \div ntok, 1)

RECURSIVE SumSeq(_)
SumSeq(s) == IF s = <<>> THEN 0 ELSE Head(s).num + SumSeq(Tail(s))

Range(s) == {s[i] : i \in 1..Len(s)}

(* np.mean of a list of floats, as the ratio sum/count *)
Mean(s) ==
  IF s = <<>> \/ NaN \in Range(s) THEN NaN
  ELSE IF Inf \in Range(s) THEN Inf
  ELSE Num(SumSeq(s), Len(s))

LastN_KeepAll(s, n) == s

(* s[-n:] *)
LastN(s, n) ==
  IF n = 0 \/ n >= Len(s) THEN s ELSE SubSeq(s, Len(s) - n + 1, Len(s))

(* ---- OneCycleLR: the constructor takes the initial step ---- *)
TotalSteps == WARM_STEPS + COOL_STEPS

SchedulerInit == 0

(* scheduler.step(): last_epoch += 1, then get_lr() checks the step number *)
SchedulerStep(last_epoch) ==
  [last_epoch |-> last_epoch + 1, raises |-> last_epoch + 1 > TotalSteps]

(* variant: the scheduler is stepped on every training step *)
SchedulerGuard_Always(step) == TRUE

(* variant: the guard lets the step at the horizon through *)
SchedulerGuard_Inclusive(step) == step <= TotalSteps

(* the loop's guard around scheduler.step() *)
SchedulerGuard(step) == step < TotalSteps

(* ---- the loop's conditions ---- *)
EvalLossesAtEntry_Keep == eval_losses

(* eval_losses = [] at the start of every evaluation *)
EvalLossesAtEntry == <<>>

ModeAfterCheckpoint_Eval == "eval"

(* mytransformer.train() after the checkpoint *)
ModeAfterCheckpoint == "train"

AfterSaveError_Retry == "saving"

(* an exception of torch.save is caught nowhere: the cell ends *)
AfterSaveError == "crashed"

(* variant: one more iteration once the budget is reached *)
LoopGuard_Inclusive == global_step <= MAX_STEPS

LoopGuard == global_step < MAX_STEPS

(* variant: the evaluation test is taken one step early *)
EvalDue_Early(step) == (step + 1) % EVAL_EVERY = 0

EvalDue(step) == step % EVAL_EVERY = 0

ValidBreak(i) == i >= EVAL_STEPS

(* variant: the demo flag is never honoured *)
DemoBreak_Never == FALSE

DemoBreak_Inverted == ~DEMO_JUST_ONE_ITRE

DemoBreak == DEMO_JUST_ONE_ITRE

BATCH_SIZE == 16

(* the number of batches of a loader that drops an incomplete last batch *)
DataLoaderLen_DropLast(lines, batch_size) == lines \div batch_size

(* len(DataLoader(dataset, batch_size)) with drop_last left False *)
DataLoaderLen(lines, batch_size) == (lines + batch_size - 1) \div batch_size

(* the three sentences of sample_sentences *)
NumSamples == 3

NoFiles == [n \in {} |-> [complete |-> FALSE]]

WriteFile(fs, name, content) ==
  [n \in DOMAIN fs \cup {name} |-> IF n = name THEN content ELSE fs[n]]

CheckpointDict_ZeroBasedEpoch ==
  [complete |-> TRUE,
   epoch |-> epoch,
   global_step |-> global_step,
   optimizer_state_dict |-> optimizer,
   scheduler_state_dict |-> scheduler,
   windowed_losses |-> windowed_losses,
   avg_loss |-> Mean(windowed_losses),
   eval_loss |-> Mean(eval_losses)]

(* the dictionary handed to torch.save *)
CheckpointDict ==
  [complete |-> TRUE,
   epoch |-> epoch + 1,
   global_step |-> global_step,
   optimizer_state_dict |-> optimizer,
   scheduler_state_dict |-> scheduler,
   windowed_losses |-> windowed_losses,
   avg_loss |-> Mean(windowed_losses),
   eval_loss |-> Mean(eval_losses)]

(* ---- tokenizers and their files ---- *)
(* a tokenizer is known by the side it serves and the corpus it was fit on *)
NoTokenizer == [side |-> "none", fit_on |-> 0]

Fit(side, text) == [side |-> side, fit_on |-> text]

(* the four files the tokenizer cell names *)
src_tokenizer_path == "src_tokenizer.pkl"
tgt_tokenizer_path == "tgt_tokenizer.pkl"
src_vocab_path == "src_tokenizer.vocab.txt"
tgt_vocab_path == "tgt_tokenizer.vocab.txt"

TokenizerPaths ==
  {src_tokenizer_path, tgt_tokenizer_path, src_vocab_path, tgt_vocab_path}

(* os.path.exists *)
Exists(fs, path) == fs[path] # NoTokenizer

(* the tokenizer cell is not stepped through: tokenizers fit and saved *)
TokDone ==
  /\ RETRAIN_TOKENIZER = FALSE
  /\ corpus = [src |-> 1, tgt |-> 1]
  /\ src_tokenizer = Fit("src", 1)
  /\ tgt_tokenizer = Fit("tgt", 1)
  /\ saved = [p \in TokenizerPaths |-> NoTokenizer]
  /\ disk = [p \in TokenizerPaths |->
               IF p = tgt_tokenizer_path THEN Fit("tgt", 1) ELSE Fit("src", 1)]
  /\ fits = 2
  /\ tpc = "done"

(* ---- gradients: the buffers of the model's parameters ---- *)
(* grad is what the buffers hold; start is what they held when backward   *)
(* last began, used what optimizer.step() last read, ops the calls of the *)
(* step in hand                                                           *)
NoGrads == [grad |-> "zero", start |-> "zero", used |-> "none", ops |-> <<>>]

Call(g, op) ==
  LET h == [g EXCEPT !.ops = Append(g.ops, op)]
  IN CASE op = "backward" ->
            [h EXCEPT !.start = g.grad,
                      !.grad = IF g.grad = "zero" THEN "raw" ELSE "accumulated"]
       [] op = "clip_grad_norm_" ->
            [h EXCEPT !.grad = IF g.grad = "raw" THEN "clipped" ELSE g.grad]
       [] op = "optimizer.step" -> [h EXCEPT !.used = g.grad]
       [] op = "scheduler.step" -> h
       [] op = "zero_grad" -> [h EXCEPT !.grad = "zero"]

RECURSIVE CallAll(_, _)
CallAll(g, ops) == IF ops = <<>> THEN g ELSE CallAll(Call(g, Head(ops)), Tail(ops))

StepCalls_ClipLate(scheduled) ==
  <<"backward", "optimizer.step", "clip_grad_norm_">>
  \o (IF scheduled THEN <<"scheduler.step">> ELSE <<>>) \o <<"zero_grad">>

(* the calls of one training step after the loss, in program order *)
StepCalls(scheduled) ==
  <<"backward", "clip_grad_norm_", "optimizer.step">>
  \o (IF scheduled THEN <<"scheduler.step">> ELSE <<>>) \o <<"zero_grad">>

(* ---- the state after the cells before the loop ---- *)
(* the loop cell's own initialisation *)
LoopStart ==
  /\ pc = "loop"
  /\ global_step = 0
  /\ epoch = 0
  /\ train_iterator = 0
  /\ loss = Unset
  /\ windowed_losses = <<>>
  /\ span_losses = <<>>
  /\ eval_losses = <<>>
  /\ idx = 0
  /\ scheduler = SchedulerInit
  /\ optimizer = 0
  /\ mode = "train"
  /\ files = NoFiles
  /\ decoded = 0
  /\ fetched = 0
  /\ sched_calls = 0
  /\ swallowed = FALSE
  /\ error = "none"
  /\ eval_at = {}
  /\ eval_prints = 0
  /\ saves = <<>>
  /\ events = <<>>
  /\ valid_seen = <<>>
  /\ loss_hist = <<>>
  /\ cycle_print = [avg |-> Unset, n |-> 0]
  /\ grads = NoGrads

(* the dataset cells are not stepped through: no batch is held *)
BatchIdle ==
  /\ dataset = <<>>
  /\ loader_batch_size = 1
  /\ MAX_SEQ_LEN = 1
  /\ bpc = "idle"
  /\ batch_no = 0
  /\ collated = <<>>
  /\ rows_seen = 0
  /\ batch_loss = [ce |-> 0, divisor |-> 0, loss |-> Unset]

Init ==
  /\ MAX_STEPS \in 0..MaxSteps
  /\ EVAL_EVERY \in 1..MaxEvalEvery
  /\ EVAL_STEPS \in 0..MaxEvalSteps
  /\ WARM_STEPS \in 1..MaxWarm
  /\ COOL_STEPS \in 1..MaxCool
  /\ LOSS_WIN \in 1..MaxLossWin
  /\ DEMO_JUST_ONE_ITRE \in BOOLEAN
  /\ train_dataloader \in 0..MaxTrainLen
  /\ valid_dataloader \in 0..MaxValidLen
  /\ min_tokens = 1
  /\ loss_levels = 1
  /\ LoopStart
  /\ BatchIdle
  /\ TokDone

(* ---- one iteration of the while loop up to the evaluation test ---- *)
(* next(train_iterator) raises StopIteration *)
Exhausted == train_iterator >= train_dataloader

(* variant: no handler around next(train_iterator) *)
RefetchFails_NoHandler == Exhausted

(* the except handler's own next() on the fresh iterator raises again *)
RefetchFails == Exhausted /\ train_dataloader = 0

(* variant: the epoch counter ticks on every step *)
EpochAfterFetch_Always == epoch + 1

(* except StopIteration: epoch += 1 *)
EpochAfterFetch == IF Exhausted THEN epoch + 1 ELSE epoch

(* the batches taken from the current iterator once the batch is fetched *)
IteratorAfterFetch == IF Exhausted THEN 1 ELSE train_iterator + 1

TrainCrash ==
  /\ pc = "loop"
  /\ LoopGuard
  /\ RefetchFails
  /\ global_step' = global_step + 1
  /\ epoch' = epoch + 1
  /\ train_iterator' = 0
  /\ pc' = "crashed"
  /\ error' = "StopIteration"
  /\ UNCHANGED <<config, prep, loss, windowed_losses, span_losses, eval_losses, idx,
                 scheduler, optimizer, mode, files, decoded, fetched, sched_calls,
                 swallowed, eval_at, eval_prints, saves, history>>

TrainStep ==
  /\ pc = "loop"
  /\ LoopGuard
  /\ ~RefetchFails
  /\ \E batch \in Batches, interrupted \in BOOLEAN :
       LET step == global_step + 1
           l == Normalise(Criterion(batch), batch.ntok)
           stepped == SchedulerStep(scheduler)
           due == EvalDue(step)
       IN /\ global_step' = step
          /\ epoch' = EpochAfterFetch
          /\ train_iterator' = IteratorAfterFetch
          /\ fetched' = fetched + 1
          /\ loss' = l
          /\ optimizer' = optimizer + 1
          /\ IF SchedulerGuard(step)
             THEN /\ scheduler' = stepped.last_epoch
                  /\ sched_calls' = sched_calls + 1
                  /\ swallowed' = (swallowed \/ stepped.raises \/ interrupted)
             ELSE /\ UNCHANGED <<scheduler, sched_calls, swallowed>>
                  /\ interrupted = FALSE
          /\ grads' = CallAll([grads EXCEPT !.ops = <<>>],
                              StepCalls(SchedulerGuard(step)))
          /\ span_losses' = Append(span_losses, l)
          /\ windowed_losses' = LastN(Append(windowed_losses, l), LOSS_WIN)
          /\ loss_hist' = Append(loss_hist, l)
          /\ IF due
             THEN /\ pc' = "evaluating"
                  /\ eval_at' = eval_at \cup {step}
                  /\ cycle_print' = [avg |-> Mean(span_losses'),
                                     n |-> Len(span_losses')]
                  /\ eval_losses' = EvalLossesAtEntry
                  /\ idx' = 0
                  /\ decoded' = 0
                  /\ mode' = "eval"
                  /\ events' = <<>>
                  /\ valid_seen' = <<>>
             ELSE /\ pc' = "loop"
                  /\ UNCHANGED <<eval_at, eval_losses, idx, decoded, mode,
                                 cycle_print, events, valid_seen>>
  /\ UNCHANGED <<config, prep, files, error, eval_prints, saves>>

(* the while condition is false *)
LoopExit ==
  /\ pc = "loop"
  /\ ~LoopGuard
  /\ pc' = "done"
  /\ UNCHANGED <<config, prep, global_step, epoch, train_iterator, loss, windowed_losses,
                 span_losses, eval_losses, idx, scheduler, optimizer, mode, files,
                 decoded, fetched, sched_calls, swallowed, error, eval_at,
                 eval_prints, saves, history>>

(* ---- the validation loop: one batch of enumerate(valid_dataloader) ---- *)
ValidBatch ==
  /\ pc = "evaluating"
  /\ idx < valid_dataloader
  /\ \E batch \in Batches :
       LET l == Normalise(Criterion(batch), batch.ntok)
       IN /\ loss' = l
          /\ eval_losses' = Append(eval_losses, l)
          /\ valid_seen' = Append(valid_seen, l)
  /\ IF ValidBreak(idx)
     THEN pc' = "validated" /\ idx' = idx /\ events' = Append(events, "validate")
     ELSE pc' = "evaluating" /\ idx' = idx + 1 /\ events' = events
  /\ UNCHANGED <<config, prep, global_step, epoch, train_iterator, windowed_losses,
                 span_losses, scheduler, optimizer, mode, files, decoded, fetched,
                 sched_calls, swallowed, error, eval_at, eval_prints, saves,
                 loss_hist, cycle_print, grads>>

(* the validation dataloader is exhausted before any break *)
ValidEnd ==
  /\ pc = "evaluating"
  /\ idx >= valid_dataloader
  /\ pc' = "validated"
  /\ events' = Append(events, "validate")
  /\ UNCHANGED <<config, prep, global_step, epoch, train_iterator, loss, windowed_losses,
                 span_losses, eval_losses, idx, scheduler, optimizer, mode, files,
                 decoded, fetched, sched_calls, swallowed, error, eval_at,
                 eval_prints, saves, valid_seen, loss_hist, cycle_print, grads>>

(* print the evaluation loss, then decode every sample sentence *)
SampleDecode ==
  /\ pc = "validated"
  /\ eval_prints' = eval_prints + 1
  /\ decoded' = NumSamples
  /\ pc' = "saving"
  /\ events' = Append(events, "decode")
  /\ UNCHANGED <<config, prep, global_step, epoch, train_iterator, loss, windowed_losses,
                 span_losses, eval_losses, idx, scheduler, optimizer, mode, files,
                 fetched, sched_calls, swallowed, error, eval_at, saves,
                 valid_seen, loss_hist, cycle_print, grads>>

Checkpoint_ResetWindow ==
  /\ pc = "saving"
  /\ files' = WriteFile(files, CheckpointName(global_step), CheckpointDict)
  /\ saves' = Append(saves, CheckpointName(global_step))
  /\ events' = Append(events, "save")
  /\ mode' = ModeAfterCheckpoint
  /\ windowed_losses' = <<>>
  /\ pc' = IF DemoBreak THEN "done" ELSE "loop"
  /\ UNCHANGED <<config, prep, global_step, epoch, train_iterator, loss, span_losses,
                 eval_losses, idx, scheduler, optimizer, decoded, fetched,
                 sched_calls, swallowed, error, eval_at, eval_prints,
                 valid_seen, loss_hist, cycle_print, grads>>

(* torch.save and the rest of the evaluation branch *)
Checkpoint ==
  /\ pc = "saving"
  /\ files' = WriteFile(files, CheckpointName(global_step), CheckpointDict)
  /\ saves' = Append(saves, CheckpointName(global_step))
  /\ events' = Append(events, "save")
  /\ mode' = ModeAfterCheckpoint
  /\ span_losses' = <<>>
  /\ pc' = IF DemoBreak THEN "done" ELSE "loop"
  /\ UNCHANGED <<config, prep, global_step, epoch, train_iterator, loss, windowed_losses,
                 eval_losses, idx, scheduler, optimizer, decoded, fetched,
                 sched_calls, swallowed, error, eval_at, eval_prints,
                 valid_seen, loss_hist, cycle_print, grads>>

(* torch.save raises: nothing catches it *)
CheckpointFails ==
  /\ pc = "saving"
  /\ \E partial \in BOOLEAN :
       files' = IF partial
                THEN WriteFile(files, CheckpointName(global_step),
                               [CheckpointDict EXCEPT !.complete = FALSE])
                ELSE files
  /\ pc' = AfterSaveError
  /\ error' = "torch.save"
  /\ UNCHANGED <<config, prep, global_step, epoch, train_iterator, loss, windowed_losses,
                 span_losses, eval_losses, idx, scheduler, optimizer, mode, decoded,
                 fetched, sched_calls, swallowed, eval_at, eval_prints, saves,
                 history>>

Next ==
  \/ TrainStep
  \/ TrainCrash
  \/ LoopExit
  \/ ValidBatch
  \/ ValidEnd
  \/ SampleDecode
  \/ Checkpoint
  \/ CheckpointFails

Spec == Init /\ [][Next]_vars

(* ---- the same loop over a degenerate corpus: batches may hold no valid   *)
(* ---- target token, and token losses differ                               *)
InitData ==
  /\ MAX_STEPS \in 1..DataSteps
  /\ EVAL_EVERY \in 1..DataSteps
  /\ EVAL_STEPS \in 0..MaxEvalSteps
  /\ WARM_STEPS = 1
  /\ COOL_STEPS = 1
  /\ LOSS_WIN \in 1..MaxLossWin
  /\ DEMO_JUST_ONE_ITRE \in BOOLEAN
  /\ train_dataloader \in 0..DataLen
  /\ valid_dataloader \in 0..DataLen
  /\ min_tokens = 0
  /\ loss_levels = 2
  /\ LoopStart
  /\ BatchIdle
  /\ TokDone

SpecData == InitData /\ [][Next]_vars

(* ---- the dataloader cells: batches of a dataset, their collation and  ---- *)
(* ---- the loss of one batch                                            ---- *)
(* An example of the dataset is the number of tokens of its label sequence *)
(* (end marker included); the source side is collated by the same function *)
(* and has the same shapes.                                                *)
Examples == 1..MaxRowLen

Datasets == UNION {[1..n -> Examples] : n \in 0..MaxData}

(* the label id CrossEntropyLoss leaves out of the sum *)
ignore_index == 0

(* pad_to_seq_len on one example: the labels cut to max_seq_len and filled *)
(* with zeros up to it, and the number of valid positions                  *)
PadToSeqLen(len, max_seq_len) ==
  [y_true |-> [i \in 1..max_seq_len |-> IF i <= len THEN 1 ELSE 0],
   y_lens |-> IF len <= max_seq_len THEN len ELSE max_seq_len]

(* the examples of the i-th batch of a loader that keeps the dataset order *)
(* (a shuffling loader yields the batches of a permutation of the dataset, *)
(* and Datasets holds every permutation)                                   *)
DataLoaderBatch(data, batch_size, i) ==
  SubSeq(data, (i - 1) * batch_size + 1,
         IF i * batch_size <= Len(data) THEN i * batch_size ELSE Len(data))

Collate(rows, max_seq_len) ==
  [k \in 1..Len(rows) |-> PadToSeqLen(rows[k], max_seq_len)]

RECURSIVE SumOver(_, _)
SumOver(f, n) == IF n = 0 THEN 0 ELSE f[n] + SumOver(f, n - 1)

(* the label positions of a row the criterion does not ignore *)
Contributing(row) ==
  Cardinality({i \in DOMAIN row.y_true : row.y_true[i] # ignore_index})

(* CrossEntropyLoss(ignore_index=0, reduction="sum") with a token loss of  *)
(* one at every position, padding included                                 *)
CrossEntropySum(b) ==
  SumOver([k \in 1..Len(b) |-> Contributing(b[k])], Len(b))

LossDivisor_BatchSize(b) == Len(b)

(* torch.sum(y_lens) *)
LossDivisor(b) == SumOver([k \in 1..Len(b) |-> b[k].y_lens], Len(b))

BatchLoss(b) ==
  [ce |-> CrossEntropySum(b),
   divisor |-> LossDivisor(b),
   loss |-> Normalise(CrossEntropySum(b), LossDivisor(b))]

(* the training loop is not run: its cell's variables keep their start *)
LoopNotRun ==
  /\ MAX_STEPS = 0
  /\ EVAL_EVERY = 1
  /\ EVAL_STEPS = 0
  /\ WARM_STEPS = 1
  /\ COOL_STEPS = 1
  /\ LOSS_WIN = 1
  /\ DEMO_JUST_ONE_ITRE = TRUE
  /\ train_dataloader = 0
  /\ valid_dataloader = 0
  /\ min_tokens = 1
  /\ loss_levels = 1
  /\ LoopStart

InitBatch ==
  /\ dataset \in Datasets
  /\ loader_batch_size \in 1..MaxBatch
  /\ MAX_SEQ_LEN \in 1..MaxSeqLen
  /\ bpc = "batching"
  /\ batch_no = 0
  /\ collated = <<>>
  /\ rows_seen = 0
  /\ batch_loss = [ce |-> 0, divisor |-> 0, loss |-> Unset]
  /\ LoopNotRun
  /\ TokDone

(* next() on the loader's iterator yields a batch, whose loss is taken *)
NextBatch ==
  /\ bpc = "batching"
  /\ batch_no < DataLoaderLen(Len(dataset), loader_batch_size)
  /\ batch_no' = batch_no + 1
  /\ collated' = Collate(DataLoaderBatch(dataset, loader_batch_size, batch_no + 1),
                         MAX_SEQ_LEN)
  /\ rows_seen' = rows_seen + Len(collated')
  /\ batch_loss' = BatchLoss(collated')
  /\ UNCHANGED <<dataset, loader_batch_size, MAX_SEQ_LEN, bpc, loopvars, tokvars>>

(* next() on the loader's iterator raises StopIteration *)
LoaderExhausted ==
  /\ bpc = "batching"
  /\ batch_no >= DataLoaderLen(Len(dataset), loader_batch_size)
  /\ bpc' = "exhausted"
  /\ UNCHANGED <<dataset, loader_batch_size, MAX_SEQ_LEN, batch_no, collated,
                 rows_seen, batch_loss, loopvars, tokvars>>

NextBatches == NextBatch \/ LoaderExhausted

SpecBatch == InitBatch /\ [][NextBatches]_vars

(* ---- the tokenizer cell: load the saved tokenizers or fit new ones ---- *)
Texts == 1..MaxText

(* what a tokenizer file of an earlier run can hold *)
SavedFiles(side) == {NoTokenizer} \cup {Fit(side, t) : t \in Texts}

InitTok ==
  /\ RETRAIN_TOKENIZER \in BOOLEAN
  /\ corpus \in [src : Texts, tgt : Texts]
  /\ saved \in {f \in [TokenizerPaths -> SavedFiles("src") \cup SavedFiles("tgt")] :
                  /\ f[src_tokenizer_path] \in SavedFiles("src")
                  /\ f[tgt_tokenizer_path] \in SavedFiles("tgt")
                  /\ f[src_vocab_path] = f[src_tokenizer_path]
                  /\ f[tgt_vocab_path] = f[tgt_tokenizer_path]}
  /\ disk = saved
  /\ src_tokenizer = NoTokenizer
  /\ tgt_tokenizer = NoTokenizer
  /\ fits = 0
  /\ tpc = "start"
  /\ LoopNotRun
  /\ BatchIdle

LoadSaved ==
  /\ Exists(disk, src_tokenizer_path)
  /\ Exists(disk, tgt_tokenizer_path)
  /\ ~RETRAIN_TOKENIZER

(* pickle.load of both files *)
LoadTokenizers ==
  /\ tpc = "start"
  /\ LoadSaved
  /\ src_tokenizer' = disk[src_tokenizer_path]
  /\ tgt_tokenizer' = disk[tgt_tokenizer_path]
  /\ tpc' = "done"
  /\ UNCHANGED <<RETRAIN_TOKENIZER, corpus, saved, disk, fits, loopvars, batchvars>>

(* the dataset fits a tokenizer on each side of the training corpus *)
FitTokenizers ==
  /\ tpc = "start"
  /\ ~LoadSaved
  /\ src_tokenizer' = Fit("src", corpus.src)
  /\ tgt_tokenizer' = Fit("tgt", corpus.tgt)
  /\ fits' = fits + 2
  /\ tpc' = "fitted"
  /\ UNCHANGED <<RETRAIN_TOKENIZER, corpus, saved, disk, loopvars, batchvars>>

(* pickle.dump of both tokenizers *)
DumpTokenizers ==
  /\ tpc = "fitted"
  /\ disk' = [disk EXCEPT ![src_tokenizer_path] = src_tokenizer,
                          ![tgt_tokenizer_path] = tgt_tokenizer]
  /\ tpc' = "dumped"
  /\ UNCHANGED <<RETRAIN_TOKENIZER, corpus, saved, src_tokenizer, tgt_tokenizer,
                 fits, loopvars, batchvars>>

(* the two export_vocab calls, both made on src_tokenizer *)
ExportVocab ==
  /\ tpc = "dumped"
  /\ disk' = [disk EXCEPT ![src_vocab_path] = src_tokenizer,
                          ![tgt_vocab_path] = src_tokenizer]
  /\ tpc' = "done"
  /\ UNCHANGED <<RETRAIN_TOKENIZER, corpus, saved, src_tokenizer, tgt_tokenizer,
                 fits, loopvars, batchvars>>

NextTok == LoadTokenizers \/ FitTokenizers \/ DumpTokenizers \/ ExportVocab

SpecTok == InitTok /\ [][NextTok]_vars

(***************************************************************************)
(* Properties                                                              *)
(***************************************************************************)
Min(a, b) == IF a <= b THEN a ELSE b

(* the last training step that ran to its end *)
LastStep == IF error = "StopIteration" THEN global_step - 1 ELSE global_step

(* C1: the steps at which the loop has entered the evaluation branch are   *)
(* exactly the positive multiples of EVAL_EVERY up to the last step run.   *)
C1_EvalAtMultiples ==
  eval_at = {s \in 1..LastStep : s % EVAL_EVERY = 0}

C1_Witness ==
  /\ EVAL_EVERY >= 2
  /\ Cardinality(eval_at) >= 2
  /\ pc = "loop"

(* C2 as stated: global_step never exceeds MAX_STEPS, and the loop is done *)
(* only with global_step = MAX_STEPS and MAX_STEPS training steps made.    *)
C2_Original ==
  /\ global_step <= MAX_STEPS
  /\ pc = "done" => (global_step = MAX_STEPS /\ optimizer = MAX_STEPS)

(* the step at which the loop ends when nothing raises *)
FinalStep ==
  IF DEMO_JUST_ONE_ITRE /\ EVAL_EVERY <= MAX_STEPS THEN EVAL_EVERY ELSE MAX_STEPS

(* C2 amended: global_step never exceeds MAX_STEPS; the loop is done with  *)
(* global_step = MAX_STEPS, or, in demo mode, right after the first        *)
(* checkpoint with global_step = EVAL_EVERY; at that point exactly         *)
(* global_step training steps have been made.                              *)
C2_Amended ==
  /\ global_step <= MAX_STEPS
  /\ pc = "done" => /\ global_step = FinalStep
                    /\ optimizer = global_step
                    /\ fetched = global_step

C2_Witness ==
  /\ pc = "done"
  /\ ~DEMO_JUST_ONE_ITRE
  /\ Len(saves) >= 1
  /\ global_step = MAX_STEPS
  /\ global_step % EVAL_EVERY # 0

(* C3: unless the fetch itself halted the loop, every step counted in      *)
(* global_step consumed one training batch and made one optimizer update,  *)
(* and each exhaustion of the iterator advanced epoch by exactly one: the  *)
(* batches consumed are epoch full passes plus the position in this pass.  *)
C3_NoStepLost ==
  error # "StopIteration" =>
    /\ fetched = global_step
    /\ optimizer = global_step
    /\ train_iterator <= train_dataloader
    /\ fetched = epoch * train_dataloader + train_iterator

C3_Witness ==
  /\ epoch >= 2
  /\ pc = "loop"
  /\ error = "none"
  /\ train_dataloader >= 1

(* a training step is about to find the iterator exhausted *)
FetchExhausted == pc = "loop" /\ LoopGuard /\ Exhausted

(* C4 as stated: a StopIteration never halts the loop, whatever the        *)
(* length of the training dataloader.                                      *)
C4_Original == error # "StopIteration"

(* C4 amended: for a training dataloader that yields at least one batch,   *)
(* exhaustion is recovered: the iterator is rebuilt, its first batch is    *)
(* consumed and the loop goes on; for an empty dataloader the handler's    *)
(* own next() raises StopIteration, which halts the loop.                  *)
C4_Amended ==
  [][FetchExhausted =>
       IF train_dataloader >= 1
       THEN /\ pc' \in {"loop", "evaluating"}
            /\ error' = "none"
            /\ epoch' = epoch + 1
            /\ train_iterator' = 1
            /\ fetched' = fetched + 1
            /\ global_step' = global_step + 1
       ELSE /\ pc' = "crashed"
            /\ error' = "StopIteration"]_vars

C4_Witness ==
  /\ epoch >= 1
  /\ train_dataloader >= 1
  /\ pc = "loop"
  /\ LoopGuard
  /\ error = "none"

(* C5: the loop never calls scheduler.step() more often than the schedule  *)
(* is long, and below the schedule length it has called it once per step.  *)
C5_SchedulerBound ==
  /\ sched_calls <= WARM_STEPS + COOL_STEPS
  /\ scheduler = SchedulerInit + sched_calls
  /\ (error # "StopIteration" /\ global_step < WARM_STEPS + COOL_STEPS)
       => sched_calls = global_step

C5_Witness ==
  /\ MAX_STEPS > WARM_STEPS + COOL_STEPS
  /\ global_step > WARM_STEPS + COOL_STEPS
  /\ sched_calls = WARM_STEPS + COOL_STEPS - 1
  /\ pc = "loop"

(* what every training step that fetched its batch does, at or past the    *)
(* schedule length or with scheduler.step() raising: the optimizer update  *)
(* and the loss bookkeeping are made, nothing propagates, and from the     *)
(* schedule length on the scheduler is left alone.                         *)
C6_Step ==
  (global_step' = global_step + 1 /\ error' # "StopIteration") =>
    /\ optimizer' = optimizer + 1
    /\ span_losses' = Append(span_losses, loss')
    /\ windowed_losses' = LastN(Append(windowed_losses, loss'), LOSS_WIN)
    /\ pc' \in {"loop", "evaluating"}
    /\ error' = "none"
    /\ global_step' >= WARM_STEPS + COOL_STEPS
         => UNCHANGED <<scheduler, sched_calls, swallowed>>

(* C6 as stated: past the schedule length every step still updates and     *)
(* records, leaves the scheduler alone and raises nothing, a raising       *)
(* scheduler.step() is swallowed, and the loop ends at MAX_STEPS.          *)
C6_Original ==
  [][/\ C6_Step
     /\ (pc' = "done" /\ MAX_STEPS > WARM_STEPS + COOL_STEPS)
          => global_step' = MAX_STEPS]_vars

(* C6 amended: the same, except that the loop ends at MAX_STEPS only when  *)
(* demo mode does not end it after the first checkpoint (it then ends at   *)
(* global_step = EVAL_EVERY).                                              *)
C6_Amended ==
  [][/\ C6_Step
     /\ (pc' = "done" /\ MAX_STEPS > WARM_STEPS + COOL_STEPS)
          => global_step' = FinalStep]_vars

C6_Witness ==
  /\ pc = "done"
  /\ ~DEMO_JUST_ONE_ITRE
  /\ global_step = MAX_STEPS
  /\ MAX_STEPS > WARM_STEPS + COOL_STEPS + 1
  /\ swallowed
  /\ optimizer = MAX_STEPS
  /\ scheduler = WARM_STEPS + COOL_STEPS - 1

IsDigit(c) == c \in {"0","1","2","3","4","5","6","7","8","9"}

(* prefix, "-", at least eight digits, ".pt" *)
WellFormedName(name) ==
  LET stem == Len(checkpoint_file) - 3
  IN /\ Len(name) >= Len(checkpoint_file) + 9
     /\ SubSeq(name, 1, stem) = SubSeq(checkpoint_file, 1, stem)
     /\ name[stem + 1] = "-"
     /\ \A i \in (stem + 2)..(Len(name) - 3) : IsDigit(name[i])
     /\ SubSeq(name, Len(name) - 2, Len(name)) = <<".","p","t">>

(* C7: the checkpoint writes of a run go to pairwise different names, each *)
(* the fixed prefix with the zero-padded step count inserted; so no write  *)
(* targets a name an earlier checkpoint of the run was written to.         *)
C7_NamesDistinct ==
  /\ \A i, j \in 1..Len(saves) : i # j => saves[i] # saves[j]
  /\ \A i \in 1..Len(saves) : WellFormedName(saves[i])
  /\ Cardinality({n \in DOMAIN files : files[n].complete}) = Len(saves)
  /\ ZeroFill(Decimal(123456789), 8) = Decimal(123456789)

C7_Witness ==
  /\ Len(saves) >= 2
  /\ saves[1] = CheckpointName(EVAL_EVERY)
  /\ saves[2] = CheckpointName(2 * EVAL_EVERY)

(* C8 as stated: one evaluation appends the loss of at most EVAL_STEPS     *)
(* validation batches, exactly min(EVAL_STEPS, number of batches).         *)
C8_EvalBounded ==
  /\ Len(eval_losses) <= EVAL_STEPS
  /\ pc \in {"validated", "saving"}
       => Len(eval_losses) = Min(EVAL_STEPS, valid_dataloader)

(* the training dataloader of a ten-line corpus *)
ToyCorpusBatches == DataLoaderLen(10, BATCH_SIZE)

(* C9: with a ten-line corpus, MAX_STEPS = 2 and EVAL_EVERY = 1 (the demo  *)
(* flag as the configuration cell sets it), the loop ends with exactly one *)
(* checkpoint file written and one evaluation loss printed.                *)
C9_ToyRun ==
  (/\ pc = "done"
   /\ train_dataloader = ToyCorpusBatches
   /\ MAX_STEPS = 2
   /\ EVAL_EVERY = 1
   /\ DEMO_JUST_ONE_ITRE)
  => /\ Len(saves) = 1
     /\ Cardinality(DOMAIN files) = 1
     /\ eval_prints = 1

C9_Witness ==
  /\ pc = "done"
  /\ train_dataloader = ToyCorpusBatches
  /\ valid_dataloader = ToyCorpusBatches
  /\ MAX_STEPS = 2
  /\ EVAL_EVERY = 1
  /\ DEMO_JUST_ONE_ITRE
  /\ Len(saves) = 1
  /\ eval_prints = 1

(* C10 as stated: the normalisation never divides by a zero token count,   *)
(* so every loss recorded by a training or a validation step is a number.  *)
C10_LossDefined ==
  /\ \A i \in 1..Len(span_losses) : span_losses[i].kind = "num"
  /\ \A i \in 1..Len(eval_losses) : eval_losses[i].kind = "num"

(* the label positions of the batch in hand that entered the loss sum *)
ContributingPositions ==
  SumOver([k \in 1..Len(collated) |-> Contributing(collated[k])], Len(collated))

(* C11: the loss of a batch is the sum of its per-token losses over the    *)
(* label positions whose id is not 0, divided by the sum of y_lens; that   *)
(* divisor is the number of positions that entered the sum, not the        *)
(* number of rows of the batch.                                            *)
C11_LossPerToken ==
  batch_no >= 1 =>
    /\ batch_loss.ce = ContributingPositions
    /\ batch_loss.divisor = ContributingPositions
    /\ batch_loss.loss = Normalise(ContributingPositions, ContributingPositions)

C11_Witness ==
  /\ batch_no >= 1
  /\ Len(collated) >= 2
  /\ batch_loss.divisor > Len(collated)
  /\ \E k \in 1..Len(collated) : collated[k].y_true[MAX_SEQ_LEN] = ignore_index
  /\ \E k \in 1..Len(collated) :
        dataset[(batch_no - 1) * loader_batch_size + k] > MAX_SEQ_LEN

(* every row of the batch in hand is MAX_SEQ_LEN wide *)
RowsPadded ==
  \A k \in 1..Len(collated) : Len(collated[k].y_true) = MAX_SEQ_LEN

(* C12 as stated: every batch a dataloader yields, the last one included,  *)
(* has loader_batch_size rows of MAX_SEQ_LEN positions (and so as many     *)
(* lengths as the batch size).                                             *)
C12_Original ==
  batch_no >= 1 => (Len(collated) = loader_batch_size /\ RowsPadded)

(* C12 amended: every batch has rows of MAX_SEQ_LEN positions and one      *)
(* length per row; it has loader_batch_size rows, except the last batch of *)
(* a dataset whose size is not a multiple of the batch size, which has the *)
(* remaining size modulo batch size rows; no example is dropped.           *)
C12_Amended ==
  /\ batch_no >= 1 =>
       /\ RowsPadded
       /\ Len(collated) = IF batch_no * loader_batch_size <= Len(dataset)
                          THEN loader_batch_size
                          ELSE Len(dataset) % loader_batch_size
       /\ Len(collated) >= 1
  /\ bpc = "exhausted" => rows_seen = Len(dataset)

C12_Witness ==
  /\ bpc = "exhausted"
  /\ batch_no >= 2
  /\ loader_batch_size >= 2
  /\ Len(collated) < loader_batch_size

(* C13 as stated: a checkpoint is written atomically and is immutable: no  *)
(* step leaves a partly written file under a checkpoint name, also when    *)
(* the write fails, and a file that exists keeps its contents.             *)
C13_AtomicImmutable ==
  [][/\ \A n \in DOMAIN files' : files'[n].complete
     /\ \A n \in DOMAIN files : n \in DOMAIN files' /\ files'[n] = files[n]]_vars

(* the stages of one evaluation cycle, in program order *)
CycleOrder == <<"validate", "decode", "save">>

(* the checkpoint written last *)
LastCheckpoint == files[saves[Len(saves)]]

(* C14: in every evaluation cycle the validation loss is computed first,   *)
(* then all sample sentences are decoded, then the checkpoint is written;  *)
(* a checkpoint is written only after both, and the eval_loss it stores is *)
(* the mean of the validation losses of its own cycle.                     *)
C14_CycleOrder ==
  /\ events = SubSeq(CycleOrder, 1, Len(events))
  /\ pc = "evaluating" => events = <<>>
  /\ pc = "validated" => events = <<"validate">>
  /\ pc = "saving" => (events = <<"validate", "decode">> /\ decoded = NumSamples)
  /\ Len(saves) <= eval_prints
  /\ events = CycleOrder =>
       /\ decoded = NumSamples
       /\ Len(saves) >= 1
       /\ LastCheckpoint.complete
       /\ LastCheckpoint.global_step \in eval_at
       /\ \A s \in eval_at : s <= LastCheckpoint.global_step
       /\ LastCheckpoint.eval_loss = Mean(valid_seen)

C14_Witness ==
  /\ events = CycleOrder
  /\ Len(saves) = 2
  /\ Len(valid_seen) >= 1
  /\ LastCheckpoint.eval_loss.kind = "num"
  /\ LastCheckpoint.eval_loss # files[saves[1]].eval_loss

(* C15: a failure of torch.save ends the loop and nothing retries it: the  *)
(* failing step leaves global_step and the completed checkpoints as they   *)
(* were, and no training step, evaluation or write follows it.             *)
C15_SaveFailureAborts ==
  [][/\ error # "torch.save"
     /\ error' = "torch.save" =>
          /\ pc = "saving"
          /\ pc' = "crashed"
          /\ UNCHANGED <<global_step, optimizer, fetched, saves, eval_at,
                         eval_prints, span_losses, windowed_losses>>]_vars

C15_Witness ==
  /\ error = "torch.save"
  /\ pc = "crashed"
  /\ ~DEMO_JUST_ONE_ITRE
  /\ Len(saves) >= 1
  /\ global_step < MAX_STEPS
  /\ CheckpointName(global_step) \in DOMAIN files

(* the training steps that ran to their end *)
StepsDone == Len(loss_hist)

(* the losses of steps from + 1 .. to, in step order *)
LossesOf(from, to) == SubSeq(loss_hist, from + 1, to)

(* the step of the evaluation entered last *)
LastEvalStep == CHOOSE s \in eval_at : \A t \in eval_at : t <= s

(* C16: windowed_losses holds the losses of the most recent                *)
(* min(steps run, LOSS_WIN) training steps in step order; span_losses      *)
(* holds the losses of every step since the last checkpoint, so it is      *)
(* empty right after one while windowed_losses is kept; and the cycle      *)
(* average printed at an evaluation is the mean of exactly EVAL_EVERY      *)
(* losses, those of the steps since the previous evaluation.               *)
C16_LossWindows ==
  /\ Len(windowed_losses) = Min(StepsDone, LOSS_WIN)
  /\ windowed_losses = LossesOf(StepsDone - Min(StepsDone, LOSS_WIN), StepsDone)
  /\ span_losses = LossesOf(Len(saves) * EVAL_EVERY, StepsDone)
  /\ error # "StopIteration" => StepsDone = global_step
  /\ eval_at # {} =>
       /\ cycle_print.n = EVAL_EVERY
       /\ cycle_print.avg = Mean(LossesOf(LastEvalStep - EVAL_EVERY, LastEvalStep))
  /\ (pc = "loop" /\ Len(saves) = Cardinality(eval_at)) =>
       Len(span_losses) = global_step % EVAL_EVERY

C16_Witness ==
  /\ LOSS_WIN = 1
  /\ StepsDone = 2
  /\ loss_hist[1] # loss_hist[2]
  /\ Len(saves) = 1
  /\ pc = "evaluating"
  /\ span_losses = <<loss_hist[2]>>
  /\ windowed_losses = span_losses

(* C17: the calls of every training step are, in this order, backward,     *)
(* gradient clipping, the optimizer update, the scheduler step (only below *)
(* the schedule length) and zero_grad; the update reads clipped gradients, *)
(* and the buffers are zero when backward begins and when the step ends.   *)
C17_StepOrder ==
  StepsDone >= 1 =>
    /\ grads.ops =
         IF StepsDone < WARM_STEPS + COOL_STEPS
         THEN <<"backward", "clip_grad_norm_", "optimizer.step", "scheduler.step",
                "zero_grad">>
         ELSE <<"backward", "clip_grad_norm_", "optimizer.step", "zero_grad">>
    /\ grads.used = "clipped"
    /\ grads.start = "zero"
    /\ grads.grad = "zero"

C17_Witness ==
  /\ StepsDone >= 3
  /\ StepsDone >= WARM_STEPS + COOL_STEPS
  /\ swallowed
  /\ grads.used = "clipped"
  /\ Len(grads.ops) = 4
  /\ Len(saves) >= 1

(* the loop is inside its evaluation branch *)
InEvaluation == pc \in {"evaluating", "validated", "saving"}

(* C19: validation, sample decoding and checkpointing change none of       *)
(* global_step, epoch, windowed_losses, the optimizer, the scheduler and   *)
(* the position of the training iterator.                                  *)
C19_EvalKeepsTrainingState ==
  [][InEvaluation =>
       UNCHANGED <<global_step, epoch, windowed_losses, optimizer, scheduler,
                   sched_calls, train_iterator, fetched>>]_vars

C19_Witness ==
  /\ pc = "loop"
  /\ events = CycleOrder
  /\ Len(valid_seen) >= 1
  /\ global_step = LastCheckpoint.global_step
  /\ windowed_losses = LastCheckpoint.windowed_losses
  /\ Len(windowed_losses) >= 2
  /\ epoch >= 1
  /\ train_iterator >= 1
  /\ scheduler >= 1

(* C20: the model is in training mode whenever a training step can run and *)
(* in evaluation mode throughout validation, decoding and the checkpoint   *)
(* write; after each checkpoint it is back in training mode.               *)
C20_Modes ==
  /\ pc = "loop" => mode = "train"
  /\ InEvaluation => mode = "eval"
  /\ (pc = "done" \/ error = "StopIteration") => mode = "train"

C20_Witness ==
  /\ pc = "loop"
  /\ LoopGuard
  /\ events = CycleOrder
  /\ Len(saves) >= 2
  /\ Len(valid_seen) >= 1
  /\ mode = "train"

(* C18 as stated: the tokenizers are loaded, and none is fit, exactly when *)
(* both tokenizer files exist and RETRAIN_TOKENIZER is false; otherwise    *)
(* new ones are fit, after which both tokenizer files exist and the        *)
(* vocabulary listing of each side was written from that side's tokenizer. *)
C18_TokenizerSetup ==
  tpc = "done" =>
    /\ fits = 0 <=> (/\ Exists(saved, src_tokenizer_path)
                     /\ Exists(saved, tgt_tokenizer_path)
                     /\ ~RETRAIN_TOKENIZER)
    /\ fits = 0 => /\ src_tokenizer = saved[src_tokenizer_path]
                   /\ tgt_tokenizer = saved[tgt_tokenizer_path]
                   /\ disk = saved
    /\ fits # 0 => /\ src_tokenizer = Fit("src", corpus.src)
                   /\ tgt_tokenizer = Fit("tgt", corpus.tgt)
                   /\ disk[src_tokenizer_path] = src_tokenizer
                   /\ disk[tgt_tokenizer_path] = tgt_tokenizer
                   /\ disk[src_vocab_path] = src_tokenizer
                   /\ disk[tgt_vocab_path] = tgt_tokenizer

(* the value of a decimal digit character *)
DigitValue(c) == CHOOSE d \in 0..9 : DigitChar(d) = c

RECURSIVE ParseDecimal(_)
ParseDecimal(s) ==
  IF s = <<>> THEN 0
  ELSE 10 * ParseDecimal(SubSeq(s, 1, Len(s) - 1)) + DigitValue(s[Len(s)])

(* the step number read back from a checkpoint file name *)
NameStep(name) ==
  ParseDecimal(SubSeq(name, Len(checkpoint_file) - 1, Len(name) - 3))

(* C21: with a training dataloader of L >= 1 batches, once the batch of    *)
(* step g is fetched epoch is floor((g - 1) / L); so every checkpoint      *)
(* stores as epoch the ceiling of g / L for the step g it was written at,  *)
(* and stores as global_step the step number in its file name.             *)
C21_EpochConsistent ==
  train_dataloader >= 1 =>
    /\ global_step >= 1 => epoch = (global_step - 1) \div train_dataloader
    /\ \A i \in 1..Len(saves) :
         LET g == NameStep(saves[i])
             f == files[saves[i]]
         IN /\ g = i * EVAL_EVERY
            /\ f.global_step = g
            /\ f.epoch = (g + train_dataloader - 1) \div train_dataloader

C21_Witness ==
  /\ train_dataloader = 2
  /\ EVAL_EVERY = 2
  /\ Len(saves) = 2
  /\ files[saves[1]].epoch = 1
  /\ files[saves[2]].epoch = 2
  /\ NameStep(saves[2]) = 4
  /\ epoch = 1

(* the step of the last checkpoint written, 0 when there is none *)
LastSaveStep == Len(saves) * EVAL_EVERY

(* C22: in demo mode with EVAL_EVERY <= MAX_STEPS the loop is done right   *)
(* after its first evaluation cycle, at global_step = EVAL_EVERY with one  *)
(* checkpoint written; when EVAL_EVERY > MAX_STEPS, or demo mode is off    *)
(* and MAX_STEPS is no multiple of EVAL_EVERY, the loop is done at         *)
(* MAX_STEPS and the steps after the last checkpoint (MAX_STEPS of them,   *)
(* or MAX_STEPS mod EVAL_EVERY) are in no checkpoint.                      *)
C22_DemoMode ==
  /\ (DEMO_JUST_ONE_ITRE /\ Len(saves) >= 1) =>
       /\ pc = "done"
       /\ Len(saves) = 1
       /\ global_step = EVAL_EVERY
  /\ (pc = "done" /\ DEMO_JUST_ONE_ITRE /\ EVAL_EVERY <= MAX_STEPS) =>
       /\ global_step = EVAL_EVERY
       /\ optimizer = EVAL_EVERY
       /\ saves = <<CheckpointName(EVAL_EVERY)>>
       /\ DOMAIN files = {CheckpointName(EVAL_EVERY)}
       /\ events = CycleOrder
  /\ (/\ pc = "done"
      /\ \/ EVAL_EVERY > MAX_STEPS
         \/ ~DEMO_JUST_ONE_ITRE /\ MAX_STEPS % EVAL_EVERY # 0) =>
       /\ global_step = MAX_STEPS
       /\ optimizer = MAX_STEPS
       /\ MAX_STEPS - LastSaveStep =
            IF EVAL_EVERY > MAX_STEPS THEN MAX_STEPS ELSE MAX_STEPS % EVAL_EVERY
       /\ MAX_STEPS >= 1 => LastSaveStep < MAX_STEPS
       /\ \A n \in DOMAIN files : files[n].global_step <= LastSaveStep
       /\ Len(span_losses) = MAX_STEPS - LastSaveStep

C22_Witness ==
  /\ pc = "done"
  /\ DEMO_JUST_ONE_ITRE
  /\ EVAL_EVERY >= 2
  /\ MAX_STEPS > EVAL_EVERY
  /\ Len(saves) = 1
  /\ global_step = EVAL_EVERY

====
